---- MODULE Spec2Model ----
(***************************************************************************)
(* Minesweeper: the solution-grid generator (board.py), the interactive     *)
(* session (game.py, MinesweeperGUI), the board statistics (analytics.py)  *)
(* and the persisted score store, as state machines.                       *)
(***************************************************************************)
EXTENDS Integers, FiniteSets, Sequences, TLC

VARIABLES
    height, width, num_mines,   \* MinesweeperGUI.height / width / num_mines
    board,                      \* self.board.board: the solution grid
    player_view,                \* self.board.player_view
    game_over, first_click,     \* session flags
    mines_left,                 \* remaining-mines counter
    reset_button,               \* face of the reset button: the session's outcome
    timer_seconds, timer_id,    \* timer bookkeeping
    after_pending,              \* update_timer callbacks scheduled in the event loop
    pc, click                   \* position inside on_left_click and its (r, c)

\* generate_analytics_data (analytics.py): its argument n_boards, its collectors,
\* its position and what it hands back to the caller
VARIABLES
    n_boards, trial,
    white_cell_counts, number_counts, cluster_counts, neighborhood_sum,
    largest_opening_sizes, edge_mine_counts, edge_zero_counts,
    apc, result

analytics_vars == <<n_boards, trial, white_cell_counts, number_counts, cluster_counts,
                    neighborhood_sum, largest_opening_sizes, edge_mine_counts,
                    edge_zero_counts, apc, result>>

\* the persisted score store (highscore_manager): the persisted state and what the
\* latest call of get_scores or add_score handed back; hs_calls is the list of the
\* calls "hs.<function>(...)" made by the handler of game.py that ran last
VARIABLES highscores_json, hs_return, hs_calls

store_vars == <<highscores_json, hs_return, hs_calls>>

session_vars == <<game_over, first_click, mines_left, reset_button, timer_seconds,
                  timer_id, after_pending, pc, click>>

vars == <<height, width, num_mines, board, player_view, game_over, first_click,
          mines_left, reset_button, timer_seconds, timer_id, after_pending,
          pc, click, analytics_vars, store_vars>>

----------------------------------------------------------------------------
(* Bounds of the model *)

MaxHeight == 3
MaxWidth == 3
MaxMines == 1
MaxFlags == 1
MaxSeconds == 2
MaxPending == 2
MaxBoards == 2
MaxTime == 2
MaxSaved == 1
MaxFairCells == 4

----------------------------------------------------------------------------
(* Cell encodings of board.py *)

MINE == -9
HIDDEN == -1
FLAGGED == -2

NoClick == <<-1, -1>>

Cells(h, w) == (0 .. h - 1) \X (0 .. w - 1)

Max(a, b) == IF a >= b THEN a ELSE b
Min(a, b) == IF a <= b THEN a ELSE b

\* Mutant of Window: the upper limits are r + 1 and c + 1, so the row below and the
\* column to the right are never visited.
Window_ShortRange(h, w, cell) ==
    (Max(0, cell[1] - 1) .. Min(h, cell[1] + 1) - 1)
        \X (Max(0, cell[2] - 1) .. Min(w, cell[2] + 1) - 1)

\* range(max(0, r - 1), min(height, r + 2)) x range(max(0, c - 1), min(width, c + 2))
Window(h, w, cell) ==
    (Max(0, cell[1] - 1) .. Min(h, cell[1] + 2) - 1)
        \X (Max(0, cell[2] - 1) .. Min(w, cell[2] + 2) - 1)

\* the cells visited by the two nested loops, the cell itself skipped
Neighbours(h, w, cell) == Window(h, w, cell) \ {cell}

----------------------------------------------------------------------------
(* board.py: Board *)

\* all_coords: the coordinates in row-major order, as a list
AllCoords(h, w) == [i \in 1 .. h * w |-> <<(i - 1) \div w, (i - 1) % w>>]

\* the sets of k positions among lo..n
RECURSIVE PositionSamples(_, _, _)
PositionSamples(lo, n, k) ==
    IF k = 0 THEN {{}}
    ELSE UNION {{{i} \cup T : T \in PositionSamples(i + 1, n, k - 1)} : i \in lo .. n}

\* random.sample(all_coords, num_mines): every set of num_mines distinct coordinates
MineSamples(h, w, m) ==
    {{AllCoords(h, w)[i] : i \in T} : T \in PositionSamples(1, h * w, m)}

\* np.zeros((height, width)) with -9 written at every sampled coordinate
PlaceMines(h, w, mine_coords) ==
    [cell \in Cells(h, w) |-> IF cell \in mine_coords THEN MINE ELSE 0]

\* The loop overwrites the grid in place; a value it writes is in 0..8 and is
\* never read as a mine, so each count depends on the mine cells alone.
CalculateNumbers(h, w, grid) ==
    [cell \in Cells(h, w) |->
        IF grid[cell] = MINE
        THEN MINE
        ELSE Cardinality({n \in Neighbours(h, w, cell) : grid[n] = MINE})]

RECURSIVE CalculateNumbersLoop_Accumulates(_, _, _, _)
RECURSIVE CalculateNumbersLoop(_, _, _, _)

\* Mutant of CalculateNumbersLoop: "board[r, c] += mine_count", the count is added
\* to the value the cell held.
CalculateNumbersLoop_Accumulates(h, w, grid, order) ==
    IF order = <<>> THEN grid
    ELSE LET cell == Head(order)
             mine_count == Cardinality({n \in Neighbours(h, w, cell) : grid[n] = MINE})
         IN  CalculateNumbersLoop_Accumulates(h, w,
                 IF grid[cell] = MINE
                 THEN grid
                 ELSE [grid EXCEPT ![cell] = @ + mine_count],
                 Tail(order))

\* _calculate_numbers as the loop runs it: the cells are taken one by one, in the
\* sequence "order" (the code's is all_coords' row-major one); a mine is skipped,
\* any other cell is overwritten in place by the number of -9 found among its
\* neighbours in the grid as it then stands
CalculateNumbersLoop(h, w, grid, order) ==
    IF order = <<>> THEN grid
    ELSE LET cell == Head(order)
             mine_count == Cardinality({n \in Neighbours(h, w, cell) : grid[n] = MINE})
         IN  CalculateNumbersLoop(h, w,
                 IF grid[cell] = MINE
                 THEN grid
                 ELSE [grid EXCEPT ![cell] = mine_count],
                 Tail(order))

AllHidden(h, w) == [cell \in Cells(h, w) |-> HIDDEN]

\* Board(height, width, num_mines): a fresh solution grid and an all-hidden view
NewBoards(h, w, m) ==
    {[board |-> CalculateNumbers(h, w, PlaceMines(h, w, S)),
      player_view |-> AllHidden(h, w)] : S \in MineSamples(h, w, m)}

----------------------------------------------------------------------------
(* game.py: reveal_cell *)

Revealed(view, cell) == view[cell] >= 0

InBounds(h, w, cell) ==
    /\ 0 <= cell[1] /\ cell[1] < h
    /\ 0 <= cell[2] /\ cell[2] < w

RECURSIVE RevealCell(_, _, _, _, _)
RECURSIVE RevealLoop(_, _, _, _, _, _, _)

\* Mutant of RevealCell: the value is read at board[c, r], row and column swapped.
RevealCell_Transposed(h, w, brd, view, cell) ==
    IF ~InBounds(h, w, cell) THEN view
    ELSE IF view[cell] >= 0 THEN view
    ELSE IF view[cell] = FLAGGED THEN view
    ELSE LET swapped == <<cell[2], cell[1]>>
             val == IF InBounds(h, w, swapped) THEN brd[swapped] ELSE brd[cell]
             written == [view EXCEPT ![cell] = val]
         IN  IF val = 0
             THEN RevealLoop(h, w, brd, written, cell,
                             Max(0, cell[1] - 1), Max(0, cell[2] - 1))
             ELSE written

\* Mutant of RevealCell: the test before the loops is "val != -9", so the cascade
\* goes on from numbered cells too.
RevealCell_PropagatesFromNumbers(h, w, brd, view, cell) ==
    IF ~InBounds(h, w, cell) THEN view
    ELSE IF view[cell] >= 0 THEN view
    ELSE IF view[cell] = FLAGGED THEN view
    ELSE LET val == brd[cell]
             written == [view EXCEPT ![cell] = val]
         IN  IF val # MINE
             THEN RevealLoop(h, w, brd, written, cell,
                             Max(0, cell[1] - 1), Max(0, cell[2] - 1))
             ELSE written

\* reveal_cell(r, c): the guards, the write, and the recursion over the window
RevealCell(h, w, brd, view, cell) ==
    IF ~InBounds(h, w, cell) THEN view
    ELSE IF view[cell] >= 0 THEN view
    ELSE IF view[cell] = FLAGGED THEN view
    ELSE LET val == brd[cell]
             written == [view EXCEPT ![cell] = val]
         IN  IF val = 0
             THEN RevealLoop(h, w, brd, written, cell,
                             Max(0, cell[1] - 1), Max(0, cell[2] - 1))
             ELSE written

\* Mutant of RevealLoop: the upper limits are r + 1 and c + 1, so the neighbours
\* below and to the right are never visited.
RECURSIVE RevealLoop_ShortRange(_, _, _, _, _, _, _)
RevealLoop_ShortRange(h, w, brd, view, cell, i, j) ==
    IF i >= Min(h, cell[1] + 1) THEN view
    ELSE IF j >= Min(w, cell[2] + 1)
         THEN RevealLoop_ShortRange(h, w, brd, view, cell, i + 1, Max(0, cell[2] - 1))
    ELSE IF <<i, j>> = cell
         THEN RevealLoop_ShortRange(h, w, brd, view, cell, i, j + 1)
    ELSE RevealLoop_ShortRange(h, w, brd, RevealCell(h, w, brd, view, <<i, j>>),
                               cell, i, j + 1)

\* Mutant of RevealLoop: the inner loop is left at the cell itself ("break" in
\* place of "continue"), so the rest of the cell's own row is never visited.
RECURSIVE RevealLoop_BreaksAtSelf(_, _, _, _, _, _, _)
RevealLoop_BreaksAtSelf(h, w, brd, view, cell, i, j) ==
    IF i >= Min(h, cell[1] + 2) THEN view
    ELSE IF j >= Min(w, cell[2] + 2)
         THEN RevealLoop_BreaksAtSelf(h, w, brd, view, cell, i + 1, Max(0, cell[2] - 1))
    ELSE IF <<i, j>> = cell
         THEN RevealLoop_BreaksAtSelf(h, w, brd, view, cell, i + 1, Max(0, cell[2] - 1))
    ELSE RevealLoop_BreaksAtSelf(h, w, brd, RevealCell(h, w, brd, view, <<i, j>>),
                                 cell, i, j + 1)

\* the nested loops "for i ... for j ..." of reveal_cell, in row-major order
RevealLoop(h, w, brd, view, cell, i, j) ==
    IF i >= Min(h, cell[1] + 2) THEN view
    ELSE IF j >= Min(w, cell[2] + 2)
         THEN RevealLoop(h, w, brd, view, cell, i + 1, Max(0, cell[2] - 1))
    ELSE IF <<i, j>> = cell
         THEN RevealLoop(h, w, brd, view, cell, i, j + 1)
    ELSE RevealLoop(h, w, brd, RevealCell(h, w, brd, view, <<i, j>>), cell, i, j + 1)

----------------------------------------------------------------------------
(* game.py: reveal_cell, with its calls counted and its writes logged *)

RECURSIVE RevealCellLogged(_, _, _, _, _)
RECURSIVE RevealLoopLogged(_, _, _, _, _, _, _)

\* Mutant of RevealCellLogged: the guard on a REVEALED cell tests "== 0", so a
\* revealed numbered cell is written again.
RevealCellLogged_ReentersNumbered(h, w, brd, run, cell) ==
    LET called == [run EXCEPT !.calls = @ + 1]
    IN  IF ~InBounds(h, w, cell) THEN called
        ELSE IF run.view[cell] = 0 THEN called
        ELSE IF run.view[cell] = FLAGGED THEN called
        ELSE LET val == brd[cell]
                 written == [called EXCEPT !.view[cell] = val,
                                           !.writes = Append(@, cell)]
             IN  IF val = 0
                 THEN RevealLoopLogged(h, w, brd, written, cell,
                                       Max(0, cell[1] - 1), Max(0, cell[2] - 1))
                 ELSE written

\* reveal_cell(r, c) on run = [view, writes, calls]: view is the player view, writes
\* the cells written so far, in order, calls the number of calls of reveal_cell
RevealCellLogged(h, w, brd, run, cell) ==
    LET called == [run EXCEPT !.calls = @ + 1]
    IN  IF ~InBounds(h, w, cell) THEN called
        ELSE IF run.view[cell] >= 0 THEN called
        ELSE IF run.view[cell] = FLAGGED THEN called
        ELSE LET val == brd[cell]
                 written == [called EXCEPT !.view[cell] = val,
                                           !.writes = Append(@, cell)]
             IN  IF val = 0
                 THEN RevealLoopLogged(h, w, brd, written, cell,
                                       Max(0, cell[1] - 1), Max(0, cell[2] - 1))
                 ELSE written

\* the nested loops of reveal_cell, in row-major order
RevealLoopLogged(h, w, brd, run, cell, i, j) ==
    IF i >= Min(h, cell[1] + 2) THEN run
    ELSE IF j >= Min(w, cell[2] + 2)
         THEN RevealLoopLogged(h, w, brd, run, cell, i + 1, Max(0, cell[2] - 1))
    ELSE IF <<i, j>> = cell
         THEN RevealLoopLogged(h, w, brd, run, cell, i, j + 1)
    ELSE RevealLoopLogged(h, w, brd, RevealCellLogged(h, w, brd, run, <<i, j>>),
                          cell, i, j + 1)

\* the cascade a left-click starts on cell, from the player view "view"
Cascade(h, w, brd, view, cell) ==
    RevealCellLogged(h, w, brd, [view |-> view, writes |-> <<>>, calls |-> 0], cell)

----------------------------------------------------------------------------
(* game.py: timer *)

NoTimer == "None"

\* root.after_cancel(timer_id): removes the callback timer_id names, if still scheduled
AfterCancel(tid, pending) == IF tid = "scheduled" THEN pending - 1 ELSE pending

\* stop_timer
StopTimer(tid, pending) ==
    IF tid # NoTimer
    THEN [timer_id |-> NoTimer, after_pending |-> AfterCancel(tid, pending)]
    ELSE [timer_id |-> tid, after_pending |-> pending]

\* start_timer followed by its first update_timer (game_over is false in on_left_click)
StartTimer(tid, pending) ==
    LET cancelled == IF tid # NoTimer THEN AfterCancel(tid, pending) ELSE pending
    IN  [timer_seconds |-> 0 + 1, timer_id |-> "scheduled", after_pending |-> cancelled + 1]

----------------------------------------------------------------------------
(* game.py: check_win *)

RevealedCount(h, w, view) == Cardinality({cell \in Cells(h, w) : view[cell] >= 0})

\* Mutant of WinCondition: the revealed count is compared with the number of cells.
WinCondition_AllCells(h, w, m, view) == RevealedCount(h, w, view) = h * w

\* revealed_count == total_non_mines
WinCondition(h, w, m, view) == RevealedCount(h, w, view) = (h * w) - m

----------------------------------------------------------------------------
(* Initial state: MinesweeperGUI.__init__ ends with new_game() *)

Configs ==
    {cfg \in (1 .. MaxHeight) \X (1 .. MaxWidth) \X (1 .. MaxMines) :
        cfg[3] < cfg[1] * cfg[2]}

\* every valid configuration up to MaxHeight x MaxWidth: 0 < num_mines < height * width
BoardConfigs ==
    {cfg \in (1 .. MaxHeight) \X (1 .. MaxWidth) \X (1 .. MaxHeight * MaxWidth) :
        cfg[3] < cfg[1] * cfg[2]}

\* cfg :> the boards Board(cfg) can return, as an explicit table over cfgs
RECURSIVE BoardTable(_)
BoardTable(cfgs) ==
    IF cfgs = {} THEN <<>>
    ELSE LET cfg == CHOOSE x \in cfgs : TRUE
         IN  (cfg :> NewBoards(cfg[1], cfg[2], cfg[3])) @@ BoardTable(cfgs \ {cfg})

\* Board(...) for every configuration of the model, tabulated once
Board == BoardTable(BoardConfigs)

\* new_game() as run by __init__, for a configuration among cfgs
InitOf(cfgs) ==
    \E cfg \in cfgs :
        /\ height = cfg[1]
        /\ width = cfg[2]
        /\ num_mines = cfg[3]
        /\ \E b \in Board[cfg] :
              /\ board = b.board
              /\ player_view = b.player_view
        /\ game_over = FALSE
        /\ first_click = TRUE
        /\ mines_left = cfg[3]
        /\ reset_button = "PLAYING"
        /\ timer_seconds = 0
        /\ timer_id = NoTimer
        /\ after_pending = 0
        /\ pc = "idle"
        /\ click = NoClick

\* generate_analytics_data has not been called
AnalyticsIdle ==
    /\ n_boards = 0
    /\ trial = 0
    /\ white_cell_counts = <<>>
    /\ number_counts = <<>>
    /\ cluster_counts = <<>>
    /\ neighborhood_sum = <<>>
    /\ largest_opening_sizes = <<>>
    /\ edge_mine_counts = <<>>
    /\ edge_zero_counts = <<>>
    /\ apc = "idle"
    /\ result = <<>>

\* the score store has not been called: nothing is persisted yet
StoreIdle ==
    /\ highscores_json = [kind |-> "missing", data |-> <<>>]
    /\ hs_return = [call |-> "none", raised |-> FALSE, value |-> <<>>]
    /\ hs_calls = <<>>

Init == InitOf(Configs) /\ AnalyticsIdle /\ StoreIdle

----------------------------------------------------------------------------
(* game.py: new_game *)

\* Mutant of NewGame: mines_left is not reset.
NewGame_KeepsMinesLeft ==
    /\ pc = "idle"
    /\ after_pending < MaxPending
    /\ game_over' = FALSE
    /\ first_click' = TRUE
    /\ timer_seconds' = 0
    /\ LET stopped == StopTimer(NoTimer, after_pending)
       IN  /\ timer_id' = stopped.timer_id
           /\ after_pending' = stopped.after_pending
    /\ reset_button' = "PLAYING"
    /\ \E b \in Board[<<height, width, num_mines>>] :
          /\ board' = b.board
          /\ player_view' = b.player_view
    /\ UNCHANGED <<height, width, num_mines, mines_left, pc, click>>

\* timer_id is set to None before stop_timer runs, so stop_timer cancels nothing
NewGame ==
    /\ pc = "idle"
    /\ after_pending < MaxPending
    /\ game_over' = FALSE
    /\ first_click' = TRUE
    /\ mines_left' = num_mines
    /\ timer_seconds' = 0
    /\ LET stopped == StopTimer(NoTimer, after_pending)
       IN  /\ timer_id' = stopped.timer_id
           /\ after_pending' = stopped.after_pending
    /\ reset_button' = "PLAYING"
    /\ \E b \in Board[<<height, width, num_mines>>] :
          /\ board' = b.board
          /\ player_view' = b.player_view
    /\ UNCHANGED <<height, width, num_mines, pc, click>>

----------------------------------------------------------------------------
(* game.py: on_left_click *)

\* Mutant of ClearFirstClick: the assignment is missing and first_click stays set.
ClearFirstClick_Forgotten == first_click

\* "self.first_click = False", run by the first accepted left-click
ClearFirstClick == FALSE

\* Mutant of Resolve: game_over_lose writes the clicked mine into the player view.
Resolve_LossRevealsMine(cell) ==
    LET started == IF first_click
                   THEN StartTimer(timer_id, after_pending)
                   ELSE [timer_seconds |-> timer_seconds, timer_id |-> timer_id,
                         after_pending |-> after_pending]
        val == board[cell]
    IN  /\ first_click' = (IF first_click THEN ClearFirstClick ELSE first_click)
        /\ timer_seconds' = started.timer_seconds
        /\ IF val = MINE
           THEN LET stopped == StopTimer(started.timer_id, started.after_pending)
                IN  /\ game_over' = TRUE
                    /\ reset_button' = "LOST"
                    /\ timer_id' = stopped.timer_id
                    /\ after_pending' = stopped.after_pending
                    /\ player_view' = [player_view EXCEPT ![cell] = val]
           ELSE LET view == RevealCell(height, width, board, player_view, cell)
                    won == ~game_over /\ WinCondition(height, width, num_mines, view)
                    stopped == IF won
                               THEN StopTimer(started.timer_id, started.after_pending)
                               ELSE [timer_id |-> started.timer_id,
                                     after_pending |-> started.after_pending]
                IN  /\ player_view' = view
                    /\ game_over' = (game_over \/ won)
                    /\ reset_button' = IF won THEN "WON" ELSE reset_button
                    /\ timer_id' = stopped.timer_id
                    /\ after_pending' = stopped.after_pending
        /\ UNCHANGED <<height, width, num_mines, board, mines_left>>

\* on_left_click once the loop is over: the grid now in force is board
Resolve(cell) ==
    LET started == IF first_click
                   THEN StartTimer(timer_id, after_pending)
                   ELSE [timer_seconds |-> timer_seconds, timer_id |-> timer_id,
                         after_pending |-> after_pending]
        val == board[cell]
    IN  /\ first_click' = (IF first_click THEN ClearFirstClick ELSE first_click)
        /\ timer_seconds' = started.timer_seconds
        /\ IF val = MINE
           THEN \* game_over_lose
                LET stopped == StopTimer(started.timer_id, started.after_pending)
                IN  /\ game_over' = TRUE
                    /\ reset_button' = "LOST"
                    /\ timer_id' = stopped.timer_id
                    /\ after_pending' = stopped.after_pending
                    /\ player_view' = player_view
           ELSE \* reveal_cell, then check_win
                LET view == RevealCell(height, width, board, player_view, cell)
                    won == ~game_over /\ WinCondition(height, width, num_mines, view)
                    stopped == IF won
                               THEN StopTimer(started.timer_id, started.after_pending)
                               ELSE [timer_id |-> started.timer_id,
                                     after_pending |-> started.after_pending]
                IN  /\ player_view' = view
                    /\ game_over' = (game_over \/ won)
                    /\ reset_button' = IF won THEN "WON" ELSE reset_button
                    /\ timer_id' = stopped.timer_id
                    /\ after_pending' = stopped.after_pending
        /\ UNCHANGED <<height, width, num_mines, board, mines_left>>

\* Mutant of OnLeftClick: the guard on a FLAGGED cell is missing.
OnLeftClick_NoFlagGuard(r, c) ==
    /\ pc = "idle"
    /\ ~game_over
    /\ ~(player_view[<<r, c>>] >= 0)
    /\ IF first_click /\ board[<<r, c>>] = MINE
       THEN /\ pc' = "regen"
            /\ click' = <<r, c>>
            /\ UNCHANGED <<height, width, num_mines, board, player_view, game_over,
                           first_click, mines_left, reset_button, timer_seconds,
                           timer_id, after_pending>>
       ELSE /\ Resolve(<<r, c>>)
            /\ UNCHANGED <<pc, click>>

\* Mutant of OnLeftClick: the guard on game_over is missing.
OnLeftClick_NoTerminalGuard(r, c) ==
    /\ pc = "idle"
    /\ player_view[<<r, c>>] # FLAGGED
    /\ ~(player_view[<<r, c>>] >= 0)
    /\ IF first_click /\ board[<<r, c>>] = MINE
       THEN /\ pc' = "regen"
            /\ click' = <<r, c>>
            /\ UNCHANGED <<height, width, num_mines, board, player_view, game_over,
                           first_click, mines_left, reset_button, timer_seconds,
                           timer_id, after_pending>>
       ELSE /\ Resolve(<<r, c>>)
            /\ UNCHANGED <<pc, click>>

\* the three guards, then either the regeneration loop is entered or the click resolves
OnLeftClick(r, c) ==
    /\ pc = "idle"
    /\ ~game_over
    /\ player_view[<<r, c>>] # FLAGGED
    /\ ~(player_view[<<r, c>>] >= 0)
    /\ IF first_click /\ board[<<r, c>>] = MINE
       THEN /\ pc' = "regen"
            /\ click' = <<r, c>>
            /\ UNCHANGED <<height, width, num_mines, board, player_view, game_over,
                           first_click, mines_left, reset_button, timer_seconds,
                           timer_id, after_pending>>
       ELSE /\ Resolve(<<r, c>>)
            /\ UNCHANGED <<pc, click>>

\* Mutant of Regenerate: "if" in place of "while", one draw and the loop is left.
Regenerate_SingleDraw ==
    /\ pc = "regen"
    /\ \E b \in Board[<<height, width, num_mines>>] :
          /\ board' = b.board
          /\ player_view' = b.player_view
          /\ pc' = "resolved"
    /\ UNCHANGED <<height, width, num_mines, game_over, first_click, mines_left,
                   reset_button, timer_seconds, timer_id, after_pending, click>>

\* Mutant of Regenerate: the grid is patched in place, the mine under the click
\* moved to a free cell and no count derived again.
Regenerate_MovesMine ==
    /\ pc = "regen"
    /\ \E cell \in Cells(height, width) :
          /\ board[cell] # MINE
          /\ board' = [board EXCEPT ![click] = 0, ![cell] = MINE]
    /\ player_view' = AllHidden(height, width)
    /\ pc' = "resolved"
    /\ UNCHANGED <<height, width, num_mines, game_over, first_click, mines_left,
                   reset_button, timer_seconds, timer_id, after_pending, click>>

\* Mutant of Regenerate: random.sample hands back the same sample at every draw.
Regenerate_SameSample ==
    /\ pc = "regen"
    /\ board' = board
    /\ player_view' = AllHidden(height, width)
    /\ pc' = IF board[click] = MINE THEN "regen" ELSE "resolved"
    /\ UNCHANGED <<height, width, num_mines, game_over, first_click, mines_left,
                   reset_button, timer_seconds, timer_id, after_pending, click>>

\* one iteration of "while board[r, c] == -9: self.board = Board(...)"
Regenerate ==
    /\ pc = "regen"
    /\ \E b \in Board[<<height, width, num_mines>>] :
          /\ board' = b.board
          /\ player_view' = b.player_view
          /\ pc' = IF b.board[click] = MINE THEN "regen" ELSE "resolved"
    /\ UNCHANGED <<height, width, num_mines, game_over, first_click, mines_left,
                   reset_button, timer_seconds, timer_id, after_pending, click>>

\* the loop has ended: the rest of on_left_click runs on the regenerated board
Proceed ==
    /\ pc = "resolved"
    /\ Resolve(click)
    /\ pc' = "idle"
    /\ click' = NoClick

----------------------------------------------------------------------------
(* game.py: on_right_click *)

FlagCount(h, w, view) == Cardinality({cell \in Cells(h, w) : view[cell] = FLAGGED})

\* the toggle of on_right_click: HIDDEN -> FLAGGED (mines_left - 1),
\* FLAGGED -> HIDDEN (mines_left + 1)
ToggleFlag(r, c) ==
    IF player_view[<<r, c>>] = HIDDEN
    THEN /\ FlagCount(height, width, player_view) < MaxFlags
         /\ player_view' = [player_view EXCEPT ![<<r, c>>] = FLAGGED]
         /\ mines_left' = mines_left - 1
    ELSE IF player_view[<<r, c>>] = FLAGGED
    THEN /\ player_view' = [player_view EXCEPT ![<<r, c>>] = HIDDEN]
         /\ mines_left' = mines_left + 1
    ELSE UNCHANGED <<player_view, mines_left>>

\* Mutant of OnRightClick: no guard on a REVEALED cell, and "else" flags whatever
\* is not FLAGGED.
OnRightClick_FlagsRevealed(r, c) ==
    /\ pc = "idle"
    /\ ~game_over
    /\ IF player_view[<<r, c>>] = FLAGGED
       THEN /\ player_view' = [player_view EXCEPT ![<<r, c>>] = HIDDEN]
            /\ mines_left' = mines_left + 1
       ELSE /\ FlagCount(height, width, player_view) < MaxFlags
            /\ player_view' = [player_view EXCEPT ![<<r, c>>] = FLAGGED]
            /\ mines_left' = mines_left - 1
    /\ UNCHANGED <<height, width, num_mines, board, game_over, first_click,
                   reset_button, timer_seconds, timer_id, after_pending, pc, click>>

\* Mutant of OnRightClick: the guard on game_over is missing.
OnRightClick_NoTerminalGuard(r, c) ==
    /\ pc = "idle"
    /\ ~(player_view[<<r, c>>] >= 0)
    /\ ToggleFlag(r, c)
    /\ UNCHANGED <<height, width, num_mines, board, game_over, first_click,
                   reset_button, timer_seconds, timer_id, after_pending, pc, click>>

OnRightClick(r, c) ==
    /\ pc = "idle"
    /\ ~game_over
    /\ ~(player_view[<<r, c>>] >= 0)
    /\ ToggleFlag(r, c)
    /\ UNCHANGED <<height, width, num_mines, board, game_over, first_click,
                   reset_button, timer_seconds, timer_id, after_pending, pc, click>>

----------------------------------------------------------------------------
(* game.py: update_timer, run by the event loop when a scheduled callback is due *)

\* fired is "current" when the callback timer_id names runs, "other" for any other one
UpdateTimer(fired) ==
    /\ pc = "idle"
    /\ after_pending > 0
    /\ IF fired = "current"
       THEN timer_id = "scheduled"
       ELSE after_pending > (IF timer_id = "scheduled" THEN 1 ELSE 0)
    /\ IF game_over
       THEN /\ after_pending' = after_pending - 1
            /\ timer_id' = IF fired = "current" THEN "expired" ELSE timer_id
            /\ UNCHANGED timer_seconds
       ELSE /\ timer_seconds < MaxSeconds
            /\ timer_seconds' = timer_seconds + 1
            /\ timer_id' = "scheduled"
            /\ after_pending' = (after_pending - 1) + 1
    /\ UNCHANGED <<height, width, num_mines, board, player_view, game_over,
                   first_click, mines_left, reset_button, pc, click>>

----------------------------------------------------------------------------
(* board.py alone: Board(height, width, num_mines) constructed again and again, *)
(* as the trial loop of analytics.py does, over every valid configuration       *)

InitBoard == InitOf(BoardConfigs) /\ AnalyticsIdle /\ StoreIdle

ConstructBoard ==
    /\ \E b \in Board[<<height, width, num_mines>>] :
          /\ board' = b.board
          /\ player_view' = b.player_view
    /\ UNCHANGED <<height, width, num_mines, game_over, first_click, mines_left,
                   reset_button, timer_seconds, timer_id, after_pending, pc, click>>

NextBoard == ConstructBoard /\ UNCHANGED <<analytics_vars, store_vars>>

SpecBoard == InitBoard /\ [][NextBoard]_vars

----------------------------------------------------------------------------
(* analytics.py: connected-component labelling (scipy.ndimage.label) *)

\* (board_solution == value).astype(int)
MaskOf(h, w, board_solution, value) ==
    [cell \in Cells(h, w) |-> IF board_solution[cell] = value THEN 1 ELSE 0]

\* Mutant of Structure: label's default structuring element, the cross, which
\* joins cells along rows and columns only.
Structure_Cross == {<<0, 0>>, <<-1, 0>>, <<1, 0>>, <<0, -1>>, <<0, 1>>}

\* np.ones((3, 3)): the offsets the structuring element joins
Structure == {-1, 0, 1} \X {-1, 0, 1}

\* region and the nonzero cells of input the structuring element joins to it
Spread(h, w, input, structure, region) ==
    region \cup {n \in Cells(h, w) :
                    /\ input[n] # 0
                    /\ \E s \in region : <<n[1] - s[1], n[2] - s[2]>> \in structure}

\* the feature of input that holds region
RECURSIVE Feature(_, _, _, _, _)
Feature(h, w, input, structure, region) ==
    LET grown == Spread(h, w, input, structure, region)
    IN  IF grown = region THEN region
        ELSE Feature(h, w, input, structure, grown)

\* the raster scan of label: a nonzero cell that has no label yet starts feature
\* num_features + 1, and its whole feature takes that label
RECURSIVE LabelScan(_, _, _, _, _, _)
LabelScan(h, w, input, structure, labeled, idx) ==
    IF idx > h * w THEN labeled
    ELSE LET cell == AllCoords(h, w)[idx]
         IN  IF input[cell] # 0 /\ labeled.labeled_array[cell] = 0
             THEN LET k == labeled.num_features + 1
                      feature == Feature(h, w, input, structure, {cell})
                  IN  LabelScan(h, w, input, structure,
                                [labeled_array |->
                                    [c \in Cells(h, w) |->
                                        IF c \in feature THEN k
                                        ELSE labeled.labeled_array[c]],
                                 num_features |-> k],
                                idx + 1)
             ELSE LabelScan(h, w, input, structure, labeled, idx + 1)

\* label(input, structure=structure) -> (labeled_array, num_features)
Label(h, w, input, structure) ==
    LabelScan(h, w, input, structure,
              [labeled_array |-> [c \in Cells(h, w) |-> 0], num_features |-> 0], 1)

\* _find_clusters(board_solution)
FindClusters(h, w, board_solution) ==
    Label(h, w, MaskOf(h, w, board_solution, MINE), Structure).num_features

\* np.max of a sequence of counts
RECURSIVE NpMax(_)
NpMax(counts) ==
    IF Len(counts) = 1 THEN counts[1]
    ELSE Max(counts[1], NpMax(Tail(counts)))

\* Mutant of FindLargestOpening: the early return is missing and the sizes are taken
\* over every label of the array, the background 0 included.
FindLargestOpening_WithBackground(h, w, board_solution) ==
    LET labeled == Label(h, w, MaskOf(h, w, board_solution, 0), Structure)
        sizes == [k \in 1 .. labeled.num_features + 1 |->
                     Cardinality({c \in Cells(h, w) : labeled.labeled_array[c] = k - 1})]
    IN  NpMax(sizes)

\* Mutant of FindLargestOpening: the slice [1:] is missing, so the size of the
\* background, label 0, is among the sizes compared.
FindLargestOpening_NoSlice(h, w, board_solution) ==
    LET labeled == Label(h, w, MaskOf(h, w, board_solution, 0), Structure)
        sizes == [k \in 1 .. labeled.num_features + 1 |->
                     Cardinality({c \in Cells(h, w) : labeled.labeled_array[c] = k - 1})]
    IN  IF labeled.num_features = 0 THEN 0 ELSE NpMax(sizes)

\* _find_largest_opening(board_solution): np.bincount(labeled_array.ravel())[1:] is
\* the size of each of the features 1 .. num_features
FindLargestOpening(h, w, board_solution) ==
    LET labeled == Label(h, w, MaskOf(h, w, board_solution, 0), Structure)
        component_sizes ==
            [k \in 1 .. labeled.num_features |->
                Cardinality({c \in Cells(h, w) : labeled.labeled_array[c] = k})]
    IN  IF labeled.num_features = 0 THEN 0 ELSE NpMax(component_sizes)

----------------------------------------------------------------------------
(* analytics.py: border counts *)

\* np.sum(board_solution[r, :] == value)
RowCount(w, board_solution, r, value) ==
    Cardinality({c \in 0 .. w - 1 : board_solution[<<r, c>>] = value})

\* np.sum(board_solution[1:h-1, c] == value)
InnerColumnCount(h, board_solution, c, value) ==
    Cardinality({r \in 1 .. h - 2 : board_solution[<<r, c>>] = value})

\* the four sums of _count_edge_mines and _count_edge_zeros, added up
CountEdge(h, w, board_solution, value) ==
    0 + RowCount(w, board_solution, 0, value)
      + RowCount(w, board_solution, h - 1, value)
      + InnerColumnCount(h, board_solution, 0, value)
      + InnerColumnCount(h, board_solution, w - 1, value)

\* _count_edge_mines(board_solution)
CountEdgeMines(h, w, board_solution) == CountEdge(h, w, board_solution, MINE)

\* _count_edge_zeros(board_solution)
CountEdgeZeros(h, w, board_solution) == CountEdge(h, w, board_solution, 0)

----------------------------------------------------------------------------
(* analytics.py: the neighbourhood map (scipy.ndimage.convolve) *)

\* kernel = np.ones((3, 3)): the offsets that carry weight 1
Kernel == {-1, 0, 1} \X {-1, 0, 1}

\* convolve(mine_map, kernel, mode='constant', cval=0) on a 0/1 map: at each cell the
\* sum of the map over the kernel's offsets, cells outside the grid counting 0
Convolve(h, w, mine_map, kernel) ==
    [cell \in Cells(h, w) |->
        Cardinality({off \in kernel :
                        LET n == <<cell[1] - off[1], cell[2] - off[2]>>
                        IN  InBounds(h, w, n) /\ mine_map[n] = 1})]

----------------------------------------------------------------------------
(* board.py as the constructor stands, on any integers *)

\* Board.__init__ checks nothing itself: np.zeros and np.full raise ValueError on a
\* negative dimension, random.sample raises ValueError when num_mines is negative
\* or larger than len(all_coords)
BoardRaises(h, w, m) == h < 0 \/ w < 0 \/ m < 0 \/ m > h * w

\* the configurations of the model on which Board(...) returns a board
AcceptedConfigs ==
    {cfg \in (0 .. MaxHeight) \X (0 .. MaxWidth) \X (0 .. MaxHeight * MaxWidth) :
        ~BoardRaises(cfg[1], cfg[2], cfg[3])}

\* Board(...) for every accepted configuration, tabulated once
CoreBoard == BoardTable(AcceptedConfigs)

----------------------------------------------------------------------------
(* analytics.py: generate_analytics_data(height, width, num_mines, n_boards) *)

\* the arguments of a call: integers, valid or not
AnalyticsInputs ==
    {args \in (-1 .. MaxHeight) \X (-1 .. MaxWidth)
                \X (-1 .. MaxHeight * MaxWidth + 1) \X (0 .. MaxBoards) :
        args[3] <= Max(0, args[1] * args[2]) + 1}

\* no session is open while the analytics run
NoSession ==
    /\ game_over = FALSE
    /\ first_click = TRUE
    /\ mines_left = 0
    /\ reset_button = "PLAYING"
    /\ timer_seconds = 0
    /\ timer_id = NoTimer
    /\ after_pending = 0
    /\ pc = "idle"
    /\ click = NoClick

\* generate_analytics_data has just been called
InitAnalytics ==
    /\ \E args \in AnalyticsInputs :
          /\ height = args[1]
          /\ width = args[2]
          /\ num_mines = args[3]
          /\ n_boards = args[4]
    /\ board = <<>>
    /\ player_view = <<>>
    /\ NoSession
    /\ trial = 0
    /\ white_cell_counts = <<>>
    /\ number_counts = <<>>
    /\ cluster_counts = <<>>
    /\ neighborhood_sum = <<>>
    /\ largest_opening_sizes = <<>>
    /\ edge_mine_counts = <<>>
    /\ edge_zero_counts = <<>>
    /\ apc = "called"
    /\ result = <<>>
    /\ StoreIdle

\* "Initialize data collectors": np.zeros((height, width)) raises ValueError on a
\* negative dimension
Collectors ==
    /\ apc = "called"
    /\ IF height < 0 \/ width < 0
       THEN /\ apc' = "raised"
            /\ UNCHANGED <<white_cell_counts, number_counts, cluster_counts,
                           neighborhood_sum, largest_opening_sizes,
                           edge_mine_counts, edge_zero_counts>>
       ELSE /\ white_cell_counts' = <<>>
            /\ number_counts' = [j \in 0 .. 8 |-> 0]
            /\ cluster_counts' = <<>>
            /\ neighborhood_sum' = [cell \in Cells(height, width) |-> 0]
            /\ largest_opening_sizes' = <<>>
            /\ edge_mine_counts' = <<>>
            /\ edge_zero_counts' = <<>>
            /\ apc' = "loop"
    /\ UNCHANGED <<height, width, num_mines, board, player_view, session_vars,
                   n_boards, trial, result>>

\* np.sum(solution == value)
CountValue(h, w, solution, value) ==
    Cardinality({cell \in Cells(h, w) : solution[cell] = value})

\* Mutant of Collect: the cluster count is inserted at the head of its list, so the
\* list runs against the generation order.
Collect_ClustersPrepended(b) ==
    LET solution == b.board
        mine_map == MaskOf(height, width, solution, MINE)
        neighborhood_map == Convolve(height, width, mine_map, Kernel)
    IN  /\ white_cell_counts' =
              Append(white_cell_counts, CountValue(height, width, solution, 0))
        /\ number_counts' =
              [j \in 0 .. 8 |->
                  number_counts[j] + CountValue(height, width, solution, j)]
        /\ cluster_counts' =
              <<FindClusters(height, width, solution)>> \o cluster_counts
        /\ neighborhood_sum' =
              [cell \in Cells(height, width) |->
                  neighborhood_sum[cell] + neighborhood_map[cell]]
        /\ largest_opening_sizes' =
              Append(largest_opening_sizes,
                     FindLargestOpening(height, width, solution))
        /\ edge_mine_counts' =
              Append(edge_mine_counts, CountEdgeMines(height, width, solution))
        /\ edge_zero_counts' =
              Append(edge_zero_counts, CountEdgeZeros(height, width, solution))

\* Mutant of Collect: the histogram loop is "for num in range(1, 9)", the 0-valued
\* cells are left out of number_counts.
Collect_ZerosNotCounted(b) ==
    LET solution == b.board
        mine_map == MaskOf(height, width, solution, MINE)
        neighborhood_map == Convolve(height, width, mine_map, Kernel)
    IN  /\ white_cell_counts' =
              Append(white_cell_counts, CountValue(height, width, solution, 0))
        /\ number_counts' =
              [j \in 0 .. 8 |->
                  IF j = 0
                  THEN number_counts[j]
                  ELSE number_counts[j] + CountValue(height, width, solution, j)]
        /\ cluster_counts' =
              Append(cluster_counts, FindClusters(height, width, solution))
        /\ neighborhood_sum' =
              [cell \in Cells(height, width) |->
                  neighborhood_sum[cell] + neighborhood_map[cell]]
        /\ largest_opening_sizes' =
              Append(largest_opening_sizes,
                     FindLargestOpening(height, width, solution))
        /\ edge_mine_counts' =
              Append(edge_mine_counts, CountEdgeMines(height, width, solution))
        /\ edge_zero_counts' =
              Append(edge_zero_counts, CountEdgeZeros(height, width, solution))

\* one iteration of the simulation loop on the board b: "Collect Data"
Collect(b) ==
    LET solution == b.board
        mine_map == MaskOf(height, width, solution, MINE)
        neighborhood_map == Convolve(height, width, mine_map, Kernel)
    IN  /\ white_cell_counts' =
              Append(white_cell_counts, CountValue(height, width, solution, 0))
        /\ number_counts' =
              [j \in 0 .. 8 |->
                  number_counts[j] + CountValue(height, width, solution, j)]
        /\ cluster_counts' =
              Append(cluster_counts, FindClusters(height, width, solution))
        /\ neighborhood_sum' =
              [cell \in Cells(height, width) |->
                  neighborhood_sum[cell] + neighborhood_map[cell]]
        /\ largest_opening_sizes' =
              Append(largest_opening_sizes,
                     FindLargestOpening(height, width, solution))
        /\ edge_mine_counts' =
              Append(edge_mine_counts, CountEdgeMines(height, width, solution))
        /\ edge_zero_counts' =
              Append(edge_zero_counts, CountEdgeZeros(height, width, solution))

\* "for i in range(n_boards)": Board(...) raises, or returns b and the data of b are
\* collected. On a grid without cells (height or width 0) the iteration ends in an
\* IndexError, raised by board_solution[0, :] or board_solution[1:h-1, 0].
Trial ==
    /\ apc = "loop"
    /\ trial < n_boards
    /\ IF BoardRaises(height, width, num_mines)
       THEN /\ apc' = "raised"
            /\ UNCHANGED <<board, player_view, trial, white_cell_counts,
                           number_counts, cluster_counts, neighborhood_sum,
                           largest_opening_sizes, edge_mine_counts,
                           edge_zero_counts>>
       ELSE \E b \in CoreBoard[<<height, width, num_mines>>] :
               /\ board' = b.board
               /\ player_view' = b.player_view
               /\ IF height = 0 \/ width = 0
                  THEN /\ apc' = "raised"
                       /\ UNCHANGED <<trial, white_cell_counts, number_counts,
                                      cluster_counts, neighborhood_sum,
                                      largest_opening_sizes, edge_mine_counts,
                                      edge_zero_counts>>
                  ELSE /\ Collect(b)
                       /\ trial' = trial + 1
                       /\ apc' = "loop"
    /\ UNCHANGED <<height, width, num_mines, session_vars, n_boards, result>>

\* numpy's division of a float by an integer: a division by 0 gives nan (0 / 0) or
\* inf with a RuntimeWarning, and raises nothing
TrueDivide(x, n) ==
    IF n # 0 THEN <<"ratio", x, n>>
    ELSE IF x = 0 THEN <<"nan", 0, 0>>
    ELSE <<"inf", x, 0>>

\* Mutant of Return: the division is one of Python numbers, and with n_boards = 0
\* it raises ZeroDivisionError.
Return_ZeroDivision ==
    /\ apc = "loop"
    /\ trial >= n_boards
    /\ IF n_boards = 0
       THEN /\ apc' = "raised"
            /\ UNCHANGED result
       ELSE /\ apc' = "returned"
            /\ result' =
                  [white_cell_counts |-> white_cell_counts,
                   number_counts |-> number_counts,
                   cluster_counts |-> cluster_counts,
                   neighborhood_avg |->
                       [cell \in Cells(height, width) |->
                           TrueDivide(neighborhood_sum[cell], n_boards)],
                   largest_opening_sizes |-> largest_opening_sizes,
                   edge_mine_counts |-> edge_mine_counts,
                   edge_zero_counts |-> edge_zero_counts]
    /\ UNCHANGED <<height, width, num_mines, board, player_view, session_vars,
                   n_boards, trial, white_cell_counts, number_counts,
                   cluster_counts, neighborhood_sum, largest_opening_sizes,
                   edge_mine_counts, edge_zero_counts>>

\* the loop is over: neighborhood_avg = neighborhood_sum / n_boards, and the return
Return ==
    /\ apc = "loop"
    /\ trial >= n_boards
    /\ result' =
          [white_cell_counts |-> white_cell_counts,
           number_counts |-> number_counts,
           cluster_counts |-> cluster_counts,
           neighborhood_avg |->
               [cell \in Cells(height, width) |->
                   TrueDivide(neighborhood_sum[cell], n_boards)],
           largest_opening_sizes |-> largest_opening_sizes,
           edge_mine_counts |-> edge_mine_counts,
           edge_zero_counts |-> edge_zero_counts]
    /\ apc' = "returned"
    /\ UNCHANGED <<height, width, num_mines, board, player_view, session_vars,
                   n_boards, trial, white_cell_counts, number_counts,
                   cluster_counts, neighborhood_sum, largest_opening_sizes,
                   edge_mine_counts, edge_zero_counts>>

NextAnalytics ==
    \/ Collectors /\ UNCHANGED store_vars
    \/ Trial /\ UNCHANGED store_vars
    \/ Return /\ UNCHANGED store_vars

SpecAnalytics == InitAnalytics /\ [][NextAnalytics]_vars

----------------------------------------------------------------------------
(* board.py alone: _calculate_numbers run on a grid whatever its cells hold, and *)
(* run again on its own result                                                   *)

\* what a cell can hold when _calculate_numbers starts: a mine, the 0 of np.zeros,
\* or a count left by an earlier run
RawValues == {MINE, 0, 8}

RawGrids(h, w) == [Cells(h, w) -> RawValues]

InitNumbers ==
    /\ \E h \in 1 .. MaxHeight, w \in 1 .. MaxWidth :
          /\ height = h
          /\ width = w
          /\ board \in RawGrids(h, w)
          /\ player_view = AllHidden(h, w)
    /\ num_mines = Cardinality({cell \in Cells(height, width) : board[cell] = MINE})
    /\ NoSession
    /\ AnalyticsIdle
    /\ StoreIdle

\* self._calculate_numbers()
CalculateNumbersCall ==
    /\ board' = CalculateNumbersLoop(height, width, board, AllCoords(height, width))
    /\ UNCHANGED <<height, width, num_mines, player_view, session_vars>>

NextNumbers == CalculateNumbersCall /\ UNCHANGED <<analytics_vars, store_vars>>

SpecNumbers == InitNumbers /\ [][NextNumbers]_vars

----------------------------------------------------------------------------
(* The persisted score store: get_scores(key), add_score(key, name, time), with *)
(* the persisted state read by load_scores                                      *)

\* the store keeps the best MAX_SCORES entries of a key
MAX_SCORES == 10

\* configuration keys "{height}x{width}x{num_mines}", and the key of the diagnostic
Keys == {"1x2x1", "test_key_999"}

Names == {"a"}

Times == 1 .. MaxTime

\* the persisted state a run can start from: no file, a file that does not parse,
\* a file that holds a list, a file that holds a mapping
PersistedStates ==
    {[kind |-> k, data |-> <<>>] : k \in {"missing", "corrupt", "list", "mapping"}}

\* Mutant of LoadScores: the parsed content is handed on whatever its shape, and a
\* missing or unreadable file as the empty mapping.
LoadScores_Unchecked(file) ==
    [mapping |-> file.kind # "list",
     data |-> IF file.kind = "mapping" THEN file.data ELSE <<>>]

\* load_scores(): the persisted mapping; the empty mapping when the persisted state
\* is missing, corrupt or not a mapping
LoadScores(file) ==
    [mapping |-> TRUE,
     data |-> IF file.kind = "mapping" THEN file.data ELSE <<>>]

\* the entries of key in a mapping, the empty list when there are none
EntriesOf(scores, key) == IF key \in DOMAIN scores THEN scores[key] ELSE <<>>

\* get_scores(key): a lookup on a value that is not a mapping raises AttributeError
GetScores(key) ==
    /\ LET loaded == LoadScores(highscores_json)
       IN  hs_return' =
               IF loaded.mapping
               THEN [call |-> "get_scores", raised |-> FALSE,
                     value |-> EntriesOf(loaded.data, key)]
               ELSE [call |-> "get_scores", raised |-> TRUE, value |-> <<>>]
    /\ UNCHANGED highscores_json

\* entry inserted after the entries whose time is not larger: ascending by time
RECURSIVE InsertByTime(_, _)
InsertByTime(entries, entry) ==
    IF entries = <<>> THEN <<entry>>
    ELSE IF Head(entries)[2] <= entry[2]
         THEN <<Head(entries)>> \o InsertByTime(Tail(entries), entry)
    ELSE <<entry>> \o entries

\* add_score(key, name, time): insert, keep ascending by time, keep the best
\* MAX_SCORES, persist
AddScore(key, name, time) ==
    /\ LET loaded == LoadScores(highscores_json)
           sorted == InsertByTime(EntriesOf(loaded.data, key), <<name, time>>)
           kept == SubSeq(sorted, 1, Min(Len(sorted), MAX_SCORES))
       IN  IF loaded.mapping
           THEN /\ highscores_json' =
                      [kind |-> "mapping",
                       data |-> [k \in DOMAIN loaded.data \cup {key} |->
                                    IF k = key THEN kept ELSE loaded.data[k]]]
                /\ hs_return' = [call |-> "add_score", raised |-> FALSE, value |-> <<>>]
           ELSE /\ hs_return' = [call |-> "add_score", raised |-> TRUE, value |-> <<>>]
                /\ UNCHANGED highscores_json

\* the score store on its own, from any persisted state; no session, no analytics
InitScores ==
    /\ highscores_json \in PersistedStates
    /\ hs_return = [call |-> "none", raised |-> FALSE, value |-> <<>>]
    /\ hs_calls = <<>>
    /\ height = 1 /\ width = 2 /\ num_mines = 1
    /\ board = <<>>
    /\ player_view = <<>>
    /\ NoSession
    /\ AnalyticsIdle

NextScores ==
    \/ \E key \in Keys :
          GetScores(key) /\ UNCHANGED <<height, width, num_mines, board, player_view,
                                        session_vars, analytics_vars, hs_calls>>
    \/ \E key \in Keys, name \in Names, time \in Times :
          AddScore(key, name, time)
              /\ UNCHANGED <<height, width, num_mines, board, player_view,
                             session_vars, analytics_vars, hs_calls>>

SpecScores == InitScores /\ [][NextScores]_vars

----------------------------------------------------------------------------
(* game.py: handle_win_highscore, called by check_win in the step that wins *)

\* self.config_key = f"{height}x{width}x{num_mines}"
ConfigKey(h, w, m) == ToString(h) \o "x" \o ToString(w) \o "x" \o ToString(m)

\* is_highscore(key, time): fewer than MAX_SCORES entries for key, or time strictly
\* less than the time of the worst entry kept
IsHighscore(key, time) ==
    LET entries == EntriesOf(LoadScores(highscores_json).data, key)
    IN  \/ Len(entries) < MAX_SCORES
        \/ time < entries[Len(entries)][2]

\* simpledialog.askstring: a name, the empty string, or None on Cancel
NoName == ""

\* the model follows a store up to MaxSaved saved entries: beyond, Cancel
AskString(key) ==
    IF Len(EntriesOf(LoadScores(highscores_json).data, key)) < MaxSaved
    THEN Names \cup {NoName}
    ELSE {NoName}

StoreCall(function, key, name, time) ==
    [function |-> function, key |-> key, name |-> name, time |-> time]

\* Mutant of HandleWinHighscore: the test "if name" is missing, the score is saved
\* whatever the dialog returned.
HandleWinHighscore_SavesUnnamed ==
    LET key == ConfigKey(height, width, num_mines)
        time == timer_seconds'
        asked == StoreCall("is_highscore", key, NoName, time)
    IN  IF IsHighscore(key, time)
        THEN \E name \in AskString(key) :
                /\ AddScore(key, name, time)
                /\ hs_calls' = <<asked, StoreCall("add_score", key, name, time),
                                 StoreCall("get_scores", key, NoName, 0)>>
        ELSE /\ hs_calls' = <<asked>>
             /\ UNCHANGED <<highscores_json, hs_return>>

\* Mutant of HandleWinHighscore: time is the value timer_seconds had when the
\* click came in, before start_timer ran.
HandleWinHighscore_TimeBeforeClick ==
    LET key == ConfigKey(height, width, num_mines)
        time == timer_seconds
        asked == StoreCall("is_highscore", key, NoName, time)
    IN  IF IsHighscore(key, time)
        THEN \E name \in AskString(key) :
                IF name # NoName
                THEN /\ AddScore(key, name, time)
                     /\ hs_calls' = <<asked, StoreCall("add_score", key, name, time),
                                      StoreCall("get_scores", key, NoName, 0)>>
                ELSE /\ hs_calls' = <<asked>>
                     /\ UNCHANGED <<highscores_json, hs_return>>
        ELSE /\ hs_calls' = <<asked>>
             /\ UNCHANGED <<highscores_json, hs_return>>

\* handle_win_highscore(): time is timer_seconds as check_win left it; the score is
\* saved, and the list shown, when is_highscore says so and a name was entered
HandleWinHighscore ==
    LET key == ConfigKey(height, width, num_mines)
        time == timer_seconds'
        asked == StoreCall("is_highscore", key, NoName, time)
    IN  IF IsHighscore(key, time)
        THEN \E name \in AskString(key) :
                IF name # NoName
                THEN /\ AddScore(key, name, time)
                     /\ hs_calls' = <<asked, StoreCall("add_score", key, name, time),
                                      StoreCall("get_scores", key, NoName, 0)>>
                ELSE /\ hs_calls' = <<asked>>
                     /\ UNCHANGED <<highscores_json, hs_return>>
        ELSE /\ hs_calls' = <<asked>>
             /\ UNCHANGED <<highscores_json, hs_return>>

\* a handler that makes no call on the score store
NoStoreCall ==
    /\ hs_calls' = <<>>
    /\ UNCHANGED <<highscores_json, hs_return>>

\* check_win() at the end of on_left_click: handle_win_highscore runs in the step
\* that sets game_over on a win, and in no other
CheckWinHighscore ==
    IF ~game_over /\ game_over' /\ reset_button' = "WON"
    THEN HandleWinHighscore
    ELSE NoStoreCall

----------------------------------------------------------------------------

\* the events of a session; generate_analytics_data is not running
Next ==
    \/ NewGame /\ NoStoreCall /\ UNCHANGED analytics_vars
    \/ \E r \in 0 .. height - 1, c \in 0 .. width - 1 :
          OnLeftClick(r, c) /\ CheckWinHighscore /\ UNCHANGED analytics_vars
    \/ Regenerate /\ NoStoreCall /\ UNCHANGED analytics_vars
    \/ Proceed /\ CheckWinHighscore /\ UNCHANGED analytics_vars
    \/ \E r \in 0 .. height - 1, c \in 0 .. width - 1 :
          OnRightClick(r, c) /\ NoStoreCall /\ UNCHANGED analytics_vars
    \/ \E fired \in {"current", "other"} :
          UpdateTimer(fired) /\ NoStoreCall /\ UNCHANGED analytics_vars

Spec == Init /\ [][Next]_vars

\* the events of a session in which on_right_click is never invoked
NextUnflagged ==
    \/ NewGame /\ NoStoreCall /\ UNCHANGED analytics_vars
    \/ \E r \in 0 .. height - 1, c \in 0 .. width - 1 :
          OnLeftClick(r, c) /\ CheckWinHighscore /\ UNCHANGED analytics_vars
    \/ Regenerate /\ NoStoreCall /\ UNCHANGED analytics_vars
    \/ Proceed /\ CheckWinHighscore /\ UNCHANGED analytics_vars
    \/ \E fired \in {"current", "other"} :
          UpdateTimer(fired) /\ NoStoreCall /\ UNCHANGED analytics_vars

SpecUnflagged == Init /\ [][NextUnflagged]_vars

\* an iteration of the regeneration loop whose draw leaves no mine under the click
RegenerateSafe ==
    Regenerate /\ pc' = "resolved" /\ NoStoreCall /\ UNCHANGED analytics_vars

\* on_left_click goes on once its loop is over
ProceedStep == Proceed /\ CheckWinHighscore /\ UNCHANGED analytics_vars

\* random.sample draws every sample with positive probability at every iteration:
\* a loop that keeps running draws, sooner or later, a sample with no mine under
\* the click; and a handler that has left its loop runs on to its end
FairConfigs == {cfg \in Configs : cfg[1] * cfg[2] <= MaxFairCells}

InitFair == InitOf(FairConfigs) /\ AnalyticsIdle /\ StoreIdle

FairSpec ==
    InitFair /\ [][Next]_vars /\ WF_vars(RegenerateSafe) /\ WF_vars(ProceedStep)

----------------------------------------------------------------------------
(* Vocabulary of the properties *)

MineCells(h, w, grid) == {cell \in Cells(h, w) : grid[cell] = MINE}

Abs(x) == IF x >= 0 THEN x ELSE 0 - x

\* Moore adjacency: distinct cells at most one row and one column apart
Adjacent(a, b) == a # b /\ Abs(a[1] - b[1]) <= 1 /\ Abs(a[2] - b[2]) <= 1

MooreTally(h, w, grid, cell) ==
    Cardinality({n \in Cells(h, w) : Adjacent(n, cell) /\ grid[n] = MINE})

RevealedCells(h, w, view) == {cell \in Cells(h, w) : view[cell] >= 0}

FlaggedCells(h, w, view) == {cell \in Cells(h, w) : view[cell] = FLAGGED}

HereCells == Cells(height, width)

----------------------------------------------------------------------------
(* C1. First-click safety: the first accepted left-click of a session never ends *)
(* in LOST; when its reveal has run, the clicked cell is REVEALED, the solution  *)
(* grid holds no mine there, and the grid in force holds exactly num_mines mines *)

FirstRevealSafe(cell, face, brd, view) ==
    /\ face # "LOST"
    /\ brd[cell] # MINE
    /\ view[cell] = brd[cell]
    /\ Cardinality(MineCells(height, width, brd)) = num_mines

\* C1: each step that answers the first click, at once or after the regeneration
\* loop, is safe for the clicked cell, and no step that clears first_click loses
C1_FirstClickSafe ==
    [][ /\ \A r \in 0 .. height - 1, c \in 0 .. width - 1 :
              (first_click /\ OnLeftClick(r, c) /\ pc' = "idle")
                  => FirstRevealSafe(<<r, c>>, reset_button', board', player_view')
        /\ Proceed => FirstRevealSafe(click, reset_button', board', player_view')
        /\ (first_click /\ ~first_click') => reset_button' # "LOST" ]_vars

\* a first click that landed on a mine has been answered on a regenerated grid
\* (only a regeneration leaves mines_left out of step with the flags in view)
W_C1_FirstClickAnswered ==
    /\ pc = "idle" /\ ~first_click /\ reset_button = "PLAYING"
    /\ RevealedCells(height, width, player_view) # {}
    /\ mines_left # num_mines - FlagCount(height, width, player_view)

----------------------------------------------------------------------------
(* C2. Board(height, width, num_mines) with 0 < num_mines < height * width:     *)
(* exactly num_mines cells hold -9 and every other cell holds the number, in    *)
(* 0..8, of mine cells among its in-bounds Moore neighbours                     *)

C2_BoardWellFormed ==
    /\ Cardinality(MineCells(height, width, board)) = num_mines
    /\ \A cell \in HereCells :
          board[cell] # MINE =>
              /\ board[cell] \in 0 .. 8
              /\ board[cell] = MooreTally(height, width, board, cell)

\* a 3 x 3 grid whose corner counts its three mine neighbours, clipped at the edge
W_C2_ClippedCorner ==
    /\ height = 3 /\ width = 3 /\ num_mines = 3
    /\ board[<<0, 0>>] = 3
    /\ board[<<2, 2>>] = 1
    /\ board[<<0, 2>>] = 2

----------------------------------------------------------------------------
(* C3. Terminal states are absorbing: once game_over is set, no step other than *)
(* new_game changes game_over, the outcome, the solution grid, the player view  *)
(* or mines_left                                                                *)

C3_TerminalAbsorbing ==
    [][ game_over
            => \/ UNCHANGED <<game_over, reset_button, board, player_view, mines_left>>
               \/ NewGame ]_vars

\* a lost session with a flag, a hidden cell and a timer callback still scheduled
W_C3_TerminalWithPending ==
    /\ game_over /\ reset_button = "LOST"
    /\ FlaggedCells(height, width, player_view) # {}
    /\ \E cell \in HereCells : player_view[cell] = HIDDEN
    /\ after_pending > 0

----------------------------------------------------------------------------
(* C4. The win check runs after every accepted non-mine reveal: the session is  *)
(* WON exactly when the number of REVEALED cells is height * width - num_mines, *)
(* no PLAYING state has every non-mine cell REVEALED, and in a WON state the    *)
(* REVEALED cells are exactly the non-mine cells                                *)

C4_WinExactlyWhenCleared ==
    /\ (reset_button = "WON")
          <=> (RevealedCount(height, width, player_view)
                  = (height * width) - num_mines)
    /\ ~game_over =>
          ~(HereCells \ MineCells(height, width, board)
                \subseteq RevealedCells(height, width, player_view))
    /\ reset_button = "WON" =>
          /\ game_over
          /\ RevealedCells(height, width, player_view)
                = HereCells \ MineCells(height, width, board)

\* a 2 x 2 grid, where every non-mine cell is a 1: a win made of single-cell reveals
W_C4_WonWithoutCascade ==
    /\ reset_button = "WON"
    /\ height = 2 /\ width = 2

----------------------------------------------------------------------------
(* C5. An accepted left-click other than the first reveal, on a HIDDEN mine,    *)
(* moves the session to LOST; LOST is reached in no other way; and a session    *)
(* that is WON never becomes LOST nor the reverse, until new_game               *)

C5_LossOnlyByMineClick ==
    [][ /\ \A r \in 0 .. height - 1, c \in 0 .. width - 1 :
              (~first_click /\ board[<<r, c>>] = MINE /\ OnLeftClick(r, c))
                  => (game_over' /\ reset_button' = "LOST")
        /\ (reset_button # "LOST" /\ reset_button' = "LOST")
              => /\ ~first_click /\ ~game_over /\ pc = "idle"
                 /\ \E cell \in HereCells :
                       /\ board[cell] = MINE
                       /\ player_view[cell] = HIDDEN
                       /\ OnLeftClick(cell[1], cell[2])
        /\ (reset_button = "WON" /\ reset_button' # "WON") => NewGame
        /\ (reset_button = "LOST" /\ reset_button' # "LOST") => NewGame ]_vars

\* a session lost after some cells were revealed
W_C5_LostAfterReveal ==
    /\ reset_button = "LOST" /\ game_over
    /\ RevealedCells(height, width, player_view) # {}

----------------------------------------------------------------------------
(* C6. Flood propagation: an accepted left-click on a HIDDEN cell whose value   *)
(* is 0 leaves REVEALED the cell's maximal 8-connected region of 0-valued cells *)
(* and every in-bounds cell adjacent to that region                             *)

\* one round of growth of a set of 0-valued cells along Moore adjacency
GrowZero(h, w, grid, S) ==
    S \cup {n \in Cells(h, w) : grid[n] = 0 /\ \E s \in S : Adjacent(n, s)}

RECURSIVE ZeroClosure(_, _, _, _)
ZeroClosure(h, w, grid, S) ==
    LET T == GrowZero(h, w, grid, S)
    IN  IF T = S THEN S ELSE ZeroClosure(h, w, grid, T)

\* the maximal 8-connected region of 0-valued cells that holds cell
ZeroRegion(h, w, grid, cell) == ZeroClosure(h, w, grid, {cell})

\* the region together with its border of numbered cells
RegionWithBorder(h, w, grid, cell) ==
    LET R == ZeroRegion(h, w, grid, cell)
    IN  R \cup {n \in Cells(h, w) : \E s \in R : Adjacent(n, s)}

\* the left-click steps that run reveal_cell on cell, a 0-valued cell
ZeroClickOn(cell) ==
    /\ board'[cell] = 0
    /\ player_view[cell] = HIDDEN
    /\ player_view'[cell] = 0
    /\ \/ pc = "idle" /\ pc' = "idle" /\ ~game_over /\ OnLeftClick(cell[1], cell[2])
       \/ pc = "resolved" /\ cell = click /\ Proceed

\* C6 as stated: every accepted left-click on a HIDDEN 0-valued cell leaves the
\* whole region and its border REVEALED
C6_FloodExhaustive ==
    [][ \A cell \in HereCells :
            ZeroClickOn(cell)
                => RegionWithBorder(height, width, board', cell)
                      \subseteq RevealedCells(height, width, player_view') ]_vars

\* before the click: no flag on the region or its border, no region cell REVEALED
FloodUnobstructed(cell) ==
    /\ RegionWithBorder(height, width, board', cell)
          \cap FlaggedCells(height, width, player_view) = {}
    /\ ZeroRegion(height, width, board', cell)
          \cap RevealedCells(height, width, player_view) = {}

\* C6 as amended: the same, for a click made when no cell of the region or of its
\* border is FLAGGED and no cell of the region is REVEALED
C6_FloodExhaustiveUnobstructed ==
    [][ \A cell \in HereCells :
            (ZeroClickOn(cell) /\ FloodUnobstructed(cell))
                => RegionWithBorder(height, width, board', cell)
                      \subseteq RevealedCells(height, width, player_view') ]_vars

\* a cascade has revealed a region of at least three 0-valued cells and its border
\* on a 3 x 3 grid
W_C6_RegionRevealed ==
    /\ height = 3 /\ width = 3 /\ pc = "idle"
    /\ \E cell \in HereCells :
          /\ board[cell] = 0
          /\ Cardinality(ZeroRegion(height, width, board, cell)) >= 3
          /\ RegionWithBorder(height, width, board, cell)
                \subseteq RevealedCells(height, width, player_view)

----------------------------------------------------------------------------
(* C7. In every reachable state, first-click regeneration included, every       *)
(* REVEALED cell of the player view holds the solution grid's value there       *)

C7_RevealedMatchesSolution ==
    \A cell \in HereCells :
        Revealed(player_view, cell) => player_view[cell] = board[cell]

\* a numbered cell and a 0-valued cell are both revealed, on a regenerated grid
W_C7_NumbersAndZerosRevealed ==
    /\ \E a, b \in HereCells : player_view[a] = 0 /\ player_view[b] = 1
    /\ mines_left # num_mines - FlagCount(height, width, player_view)

----------------------------------------------------------------------------
(* C8. Reveal is monotonic within a session: no step other than new_game        *)
(* changes the player-view entry of a REVEALED cell                             *)

C8_RevealMonotonic ==
    [][ \/ \A cell \in HereCells :
              Revealed(player_view, cell) => player_view'[cell] = player_view[cell]
        \/ NewGame ]_vars

\* revealed cells, with a flag placed and the timer having ticked after the reveal
W_C8_RevealedThenMore ==
    /\ RevealedCells(height, width, player_view) # {}
    /\ FlaggedCells(height, width, player_view) # {}
    /\ timer_seconds >= 2
    /\ ~game_over

----------------------------------------------------------------------------
(* C9. on_right_click(r, c) in a PLAYING session acts only on a cell that is    *)
(* not REVEALED, toggles it HIDDEN <-> FLAGGED, changes no other cell of the    *)
(* player view, and never changes the solution grid, game_over or first_click   *)

C9_RightClickFrame ==
    [][ \A r \in 0 .. height - 1, c \in 0 .. width - 1 :
            OnRightClick(r, c) =>
                /\ ~game_over
                /\ ~Revealed(player_view, <<r, c>>)
                /\ player_view[<<r, c>>] = HIDDEN => player_view'[<<r, c>>] = FLAGGED
                /\ player_view[<<r, c>>] = FLAGGED => player_view'[<<r, c>>] = HIDDEN
                /\ \A other \in HereCells \ {<<r, c>>} :
                      player_view'[other] = player_view[other]
                /\ UNCHANGED <<board, game_over, first_click>> ]_vars

\* a flag stands next to a revealed cell in a PLAYING session
W_C9_FlagBesideRevealed ==
    /\ ~game_over /\ ~first_click /\ pc = "idle"
    /\ \E f, v \in HereCells :
          /\ player_view[f] = FLAGGED
          /\ Revealed(player_view, v)
          /\ Adjacent(f, v)

----------------------------------------------------------------------------
(* C10. When the first accepted left-click lands on a mine and the grid is      *)
(* regenerated, the player view is the same after the regeneration as before    *)
(* the click, flags included, and no cell is REVEALED when the reveal proceeds  *)

C10_ViewPreservedByRegeneration ==
    [][ /\ pc = "regen" => player_view' = player_view
        /\ pc' = "resolved" => RevealedCells(height, width, player_view') = {} ]_vars

----------------------------------------------------------------------------
(* Vocabulary of the analytics properties *)

\* the cells of S joined to a cell of R by a path of cells of S, each
\* Moore-adjacent to the next
RECURSIVE PathClosure(_, _)
PathClosure(S, R) ==
    LET T == R \cup {n \in S : \E s \in R : Adjacent(n, s)}
    IN  IF T = R THEN R ELSE PathClosure(S, T)

\* the maximal 8-connected groups of the cells of S
Components(S) == {PathClosure(S, {cell}) : cell \in S}

ZeroCells(h, w, grid) == {cell \in Cells(h, w) : grid[cell] = 0}

\* the cells on row 0, row h - 1, column 0 or column w - 1
BorderCells(h, w) ==
    {cell \in Cells(h, w) :
        cell[1] = 0 \/ cell[1] = h - 1 \/ cell[2] = 0 \/ cell[2] = w - 1}

\* the board of the latest trial has been collected: it is entry "trial" of every
\* per-trial sequence
Collected == trial > 0 /\ apc \in {"loop", "returned"}

InvalidConfig(h, w, m) == h <= 0 \/ w <= 0 \/ m <= 0 \/ m >= h * w

\* the latest trial's board has been collected, under a valid configuration
CollectedValid == Collected /\ ~InvalidConfig(height, width, num_mines)

----------------------------------------------------------------------------
(* C11. Invalid configurations are rejected by the core itself: with            *)
(* height <= 0, width <= 0, num_mines <= 0 or num_mines >= height * width,      *)
(* constructing a Board ends in an error and yields no board, so no trial of    *)
(* generate_analytics_data completes                                            *)

\* C11: under an invalid configuration no board exists and no trial completes
C11_InvalidConfigRejected ==
    InvalidConfig(height, width, num_mines) =>
        /\ trial = 0
        /\ Cells(height, width) # {} => board = <<>>
        /\ (apc = "returned" => n_boards = 0)

----------------------------------------------------------------------------
(* C12. _find_clusters returns, for every solution grid, the number of maximal  *)
(* 8-connected groups of mine cells                                             *)

C12_ClustersAreComponents ==
    Collected =>
        /\ cluster_counts[trial]
              = Cardinality(Components(MineCells(height, width, board)))
        /\ FindClusters(height, width, board) = cluster_counts[trial]

\* three mines, two of them joined by a diagonal only and the third apart: 2 clusters
W_C12_DiagonalPairAndSingle ==
    /\ Collected /\ num_mines = 3
    /\ cluster_counts[trial] = 2
    /\ \E a, b \in MineCells(height, width, board) :
          /\ Abs(a[1] - b[1]) = 1 /\ Abs(a[2] - b[2]) = 1
          /\ \A n \in MineCells(height, width, board) :
                ~(Adjacent(a, n) /\ (a[1] = n[1] \/ a[2] = n[2]))

----------------------------------------------------------------------------
(* C13. _find_largest_opening never exceeds the number of 0-valued cells of the *)
(* same trial's grid, and it equals that number exactly when the 0-valued cells *)
(* form a single 8-connected region                                             *)

\* C13 as stated, on the grids of valid configurations
C13_LargestOpeningSingleRegion ==
    CollectedValid =>
        /\ largest_opening_sizes[trial] <= white_cell_counts[trial]
        /\ (largest_opening_sizes[trial] = white_cell_counts[trial])
              <=> Cardinality(Components(ZeroCells(height, width, board))) = 1

\* C13 as amended: the largest opening never exceeds the number of 0-valued cells,
\* and equals it exactly when the 0-valued cells form at most one 8-connected
\* region, that is a single region or none at all
C13_LargestOpeningAtMostOneRegion ==
    Collected =>
        /\ white_cell_counts[trial]
              = Cardinality(ZeroCells(height, width, board))
        /\ largest_opening_sizes[trial] <= white_cell_counts[trial]
        /\ (largest_opening_sizes[trial] = white_cell_counts[trial])
              <=> Cardinality(Components(ZeroCells(height, width, board))) <= 1
        /\ \A R \in Components(ZeroCells(height, width, board)) :
              Cardinality(R) <= largest_opening_sizes[trial]

\* two openings of one cell each in opposite corners: the largest is 1 of 2 cells
W_C13_TwoOpenings ==
    /\ Collected
    /\ Cardinality(Components(ZeroCells(height, width, board))) = 2
    /\ largest_opening_sizes[trial] = 1
    /\ white_cell_counts[trial] = 2

----------------------------------------------------------------------------
(* C14. Degenerate masks are not an error: on a grid with no 0-valued cell      *)
(* _find_largest_opening returns 0, on a grid with no mine cell _find_clusters  *)
(* returns 0, and neither raises                                                *)

C14_DegenerateMasks ==
    (height >= 1 /\ width >= 1 /\ ~BoardRaises(height, width, num_mines)) =>
        /\ apc # "raised"
        /\ Collected =>
              /\ ZeroCells(height, width, board) = {}
                    => largest_opening_sizes[trial] = 0
              /\ MineCells(height, width, board) = {}
                    => cluster_counts[trial] = 0

\* the 3 x 3 grid of eight mines around a centre whose count is 8
W_C14_EightMinesAroundCentre ==
    /\ Collected /\ height = 3 /\ width = 3 /\ num_mines = 8
    /\ board[<<1, 1>>] = 8
    /\ largest_opening_sizes[trial] = 0
    /\ cluster_counts[trial] = 1

----------------------------------------------------------------------------
(* C15. For every grid of valid dimensions, single-row and single-column grids  *)
(* included, _count_edge_mines and _count_edge_zeros return the number of       *)
(* border cells that hold a mine, respectively 0, each border cell counted      *)
(* once; hence the border-mine count never exceeds num_mines                    *)

C15_BorderCountedOnce ==
    CollectedValid =>
        /\ edge_mine_counts[trial]
              = Cardinality(BorderCells(height, width)
                               \cap MineCells(height, width, board))
        /\ edge_zero_counts[trial]
              = Cardinality(BorderCells(height, width)
                               \cap ZeroCells(height, width, board))
        /\ edge_mine_counts[trial] <= num_mines

----------------------------------------------------------------------------
(* C16. In every trial, the density-map contribution added at each cell, mine   *)
(* or not, is the number of mine cells among the cell's up-to-8 Moore           *)
(* neighbours, clipped at the grid boundary                                     *)

C16_DensityIsMooreTally ==
    [][ (CollectedValid' /\ trial' = trial + 1) =>
            \A cell \in Cells(height, width) :
                neighborhood_sum'[cell]
                    = neighborhood_sum[cell]
                        + MooreTally(height, width, board', cell) ]_vars
----------------------------------------------------------------------------
(* C17. generate_analytics_data with n_boards = 0 returns normally: every       *)
(* per-trial sequence is empty, the histogram totals are all 0, and the average *)
(* density map is all zeros or all not-a-number; the division by the trial      *)
(* count raises nothing. (A negative height or width is refused before the      *)
(* loop, whatever n_boards is.)                                                 *)

C17_ZeroTrialsReturn ==
    (n_boards = 0 /\ height >= 0 /\ width >= 0) =>
        /\ apc # "raised"
        /\ apc = "loop" => ENABLED Return
        /\ apc = "returned" =>
              /\ result.white_cell_counts = <<>>
              /\ result.cluster_counts = <<>>
              /\ result.largest_opening_sizes = <<>>
              /\ result.edge_mine_counts = <<>>
              /\ result.edge_zero_counts = <<>>
              /\ \A j \in 0 .. 8 : result.number_counts[j] = 0
              /\ DOMAIN result.neighborhood_avg = Cells(height, width)
              /\ \/ \A cell \in Cells(height, width) :
                        result.neighborhood_avg[cell][1] = "nan"
                 \/ \A cell \in Cells(height, width) :
                        /\ result.neighborhood_avg[cell][1] = "ratio"
                        /\ result.neighborhood_avg[cell][2] = 0

\* a call with n_boards = 0 on a 3 x 3 grid has returned a map of not-a-number
W_C17_ReturnedNaN ==
    /\ apc = "returned" /\ n_boards = 0
    /\ height = 3 /\ width = 3 /\ num_mines = 2
    /\ result.neighborhood_avg[<<1, 1>>][1] = "nan"

----------------------------------------------------------------------------
(* C18. generate_analytics_data returns the five per-trial sequences, each of   *)
(* length n_boards, the i-th entry of each computed from the i-th generated     *)
(* board in generation order, with the cumulative histogram totals and the      *)
(* average density map                                                          *)

\* seq grows by the one entry x and keeps its earlier entries in place
Extends(seq_after, seq_before, x) ==
    /\ Len(seq_after) = Len(seq_before) + 1
    /\ \A k \in 1 .. Len(seq_before) : seq_after[k] = seq_before[k]
    /\ seq_after[Len(seq_after)] = x

\* every per-trial sequence has one entry for each completed trial
AlignedSequences ==
    /\ Len(white_cell_counts) = trial
    /\ Len(cluster_counts) = trial
    /\ Len(largest_opening_sizes) = trial
    /\ Len(edge_mine_counts) = trial
    /\ Len(edge_zero_counts) = trial

----------------------------------------------------------------------------
(* C19. get_scores(key) returns a list, never an error: the entries of key when *)
(* the persisted state is a mapping that holds key, the empty list when it      *)
(* holds no entry for key or when the persisted state is missing, corrupt or    *)
(* not a mapping; such a state does not halt later score queries                *)

C19_GetScoresNeverFails ==
    [][ \A key \in Keys :
            GetScores(key) =>
                /\ ~hs_return'.raised
                /\ hs_return'.value \in Seq(Names \X Times)
                /\ (highscores_json.kind # "mapping"
                       \/ key \notin DOMAIN highscores_json.data)
                      => hs_return'.value = <<>>
                /\ (highscores_json.kind = "mapping"
                       /\ key \in DOMAIN highscores_json.data)
                      => hs_return'.value = highscores_json.data[key]
                /\ \A other \in Keys : ENABLED GetScores(other) ]_vars

\* get_scores has answered the empty list on a persisted state that holds a list
W_C19_EmptyOnList ==
    /\ highscores_json.kind = "list"
    /\ hs_return = [call |-> "get_scores", raised |-> FALSE, value |-> <<>>]
----------------------------------------------------------------------------
(* C20. Every reveal cascade terminates, for every grid and every player view,  *)
(* and within one cascade each cell's player-view entry is written at most      *)
(* once: a REVEALED cell is never revealed again and never propagates further   *)

\* the left-click steps that run reveal_cell on cell
RevealOn(cell) ==
    /\ player_view'[cell] >= 0
    /\ \/ /\ pc = "idle" /\ pc' = "idle" /\ ~game_over
          /\ player_view[cell] = HIDDEN
          /\ OnLeftClick(cell[1], cell[2])
       \/ pc = "resolved" /\ cell = click /\ Proceed

\* the cells a run wrote
Written(run) == {run.writes[k] : k \in 1 .. Len(run.writes)}

\* the cascade ended in the view "after", having written no cell twice and none
\* that was not HIDDEN, in at most 1 + 8 * (0-valued cells written) calls
WritesOnce(h, w, brd, before, after, run, written) ==
    /\ run.view = after
    /\ Cardinality(written) = Len(run.writes)
    /\ \A n \in written : before[n] = HIDDEN
    /\ RevealedCells(h, w, after) = RevealedCells(h, w, before) \cup written
    /\ Len(run.writes) <= h * w
    /\ run.calls <= 1 + 8 * Cardinality({n \in written : brd[n] = 0})

\* C20: the cascade of every revealing left-click ends, in a bounded number of
\* calls, having written each cell at most once and no REVEALED cell
C20_CascadeTerminatesWritesOnce ==
    [][ \A cell \in HereCells :
            RevealOn(cell) =>
                \A run \in {Cascade(height, width, board', player_view, cell)} :
                    \A written \in {Written(run)} :
                        WritesOnce(height, width, board', player_view,
                                   player_view', run, written) ]_vars

\* a cascade over several 0-valued cells has run around a flag on a 3 x 3 grid
W_C20_CascadeAroundFlag ==
    /\ pc = "idle" /\ height = 3 /\ width = 3
    /\ Cardinality({cell \in HereCells : player_view[cell] = 0}) >= 3
    /\ \E f, z \in HereCells :
          /\ player_view[f] = FLAGGED
          /\ player_view[z] = 0
          /\ Adjacent(f, z)

----------------------------------------------------------------------------
(* C21. A left-click on a FLAGGED cell, on a REVEALED cell or in a terminal     *)
(* session changes nothing: on_left_click returns at one of its three guards,   *)
(* so no step of on_left_click exists for such a click, before the first reveal *)
(* (first_click and the timer untouched) as well as after a cascade             *)

\* on_left_click(r, c) returns before it writes anything
IgnoredLeftClick(cell) ==
    \/ game_over
    \/ player_view[cell] = FLAGGED
    \/ player_view[cell] >= 0

\* C21: in every state, no step of on_left_click exists for a click that one of
\* the three guards ignores
C21_IgnoredLeftClickNoOp ==
    \A r \in 0 .. height - 1, c \in 0 .. width - 1 :
        IgnoredLeftClick(<<r, c>>) => ~ENABLED OnLeftClick(r, c)

\* before any reveal a flag stands on a cell: a left-click there is ignored, one
\* on a HIDDEN cell would be accepted
W_C21_FlagBeforeFirstReveal ==
    /\ pc = "idle" /\ ~game_over /\ first_click
    /\ timer_seconds = 0 /\ timer_id = NoTimer
    /\ \E f, x \in HereCells :
          /\ player_view[f] = FLAGGED
          /\ ~ENABLED OnLeftClick(f[1], f[2])
          /\ player_view[x] = HIDDEN
          /\ ENABLED OnLeftClick(x[1], x[2])

----------------------------------------------------------------------------
(* C22. The step in which an accepted left-click hits a mine and the session    *)
(* becomes LOST leaves the player view as it was (no cell REVEALED, every flag  *)
(* kept) and leaves mines_left and the solution grid unchanged: only game_over  *)
(* and the timer, which is stopped, change                                      *)

C22_LossKeepsView ==
    [][ (reset_button # "LOST" /\ reset_button' = "LOST") =>
            /\ ~game_over /\ game_over'
            /\ UNCHANGED <<player_view, board, mines_left>>
            /\ UNCHANGED <<first_click, timer_seconds, highscores_json>>
            /\ timer_id = "scheduled" /\ timer_id' = NoTimer
            /\ after_pending' = after_pending - 1 ]_vars

\* a session lost with a flag standing, cells revealed before the loss, every mine
\* still unrevealed, and the timer stopped after it had ticked
W_C22_LostWithFlagKept ==
    /\ reset_button = "LOST" /\ game_over /\ timer_id = NoTimer
    /\ timer_seconds >= 2
    /\ FlaggedCells(height, width, player_view) # {}
    /\ RevealedCells(height, width, player_view) # {}
    /\ \A cell \in MineCells(height, width, board) : ~Revealed(player_view, cell)

----------------------------------------------------------------------------
(* C23. Within a session the solution grid is replaced only while the first     *)
(* accepted left-click is handled, first_click still set: once first_click is   *)
(* cleared no left-click, right-click or timer firing changes the grid until    *)
(* new_game; and every replacement grid is generated from scratch, num_mines    *)
(* mines and every count derived from them                                      *)

\* the grid is what placing its own mines on an empty grid and deriving every
\* count gives
GeneratedFromScratch(h, w, m, grid) ==
    /\ Cardinality(MineCells(h, w, grid)) = m
    /\ grid = CalculateNumbers(h, w, PlaceMines(h, w, MineCells(h, w, grid)))

\* C23: every step that changes the solution grid is new_game or an iteration of
\* the first click's loop, and the new grid is generated from scratch
C23_GridReplacedOnlyOnFirstClick ==
    [][ board' # board =>
            /\ (first_click /\ pc = "regen") \/ NewGame
            /\ GeneratedFromScratch(height, width, num_mines, board') ]_vars

\* a session whose grid was regenerated under the first click (the flag placed
\* before it was dropped while mines_left kept its decrement) and which went on
\* with a new flag and timer ticks
W_C23_PlayedOnAfterRegeneration ==
    /\ pc = "idle" /\ ~first_click /\ ~game_over
    /\ timer_seconds >= 2
    /\ FlagCount(height, width, player_view) = 1
    /\ mines_left < num_mines - FlagCount(height, width, player_view)
    /\ RevealedCells(height, width, player_view) # {}

----------------------------------------------------------------------------
(* C24. The regeneration loop of the first click terminates, for every          *)
(* configuration with 0 < num_mines < height * width and every clicked cell:    *)
(* under fair random mine placement a board with no mine under the click is     *)
(* eventually drawn, and the click is then answered                             *)

C24_RegenerationTerminates ==
    /\ (pc = "regen") ~> (pc = "resolved" /\ board[click] # MINE)
    /\ (pc = "resolved") ~> (pc = "idle" /\ ~first_click /\ click = NoClick)

\* the loop has just drawn a board with no mine under a click made on a 2 x 2 grid
W_C24_SafeBoardDrawn ==
    /\ pc = "resolved" /\ first_click
    /\ height = 2 /\ width = 2
    /\ click # NoClick /\ board[click] # MINE
    /\ player_view = AllHidden(height, width)

----------------------------------------------------------------------------
(* C25. _calculate_numbers is an idempotent pure function of the mine set: run  *)
(* on a grid it has already processed it changes no cell, and its result        *)
(* depends only on which cells are mines, neither on what the other cells held  *)
(* nor on the order in which the cells are processed                            *)

Reversed(seq) == [k \in 1 .. Len(seq) |-> seq[Len(seq) + 1 - k]]

ColumnMajor(h, w) == [k \in 1 .. h * w |-> <<(k - 1) % h, (k - 1) \div h>>]

\* processing orders: row-major (the code's), column-major, and both reversed
Orders(h, w) ==
    {AllCoords(h, w), Reversed(AllCoords(h, w)),
     ColumnMajor(h, w), Reversed(ColumnMajor(h, w))}

\* C25: the result of _calculate_numbers is a fixed point of it, is what the mine
\* set alone gives, and is the same in every processing order
C25_CountsIdempotentPure ==
    [][ /\ CalculateNumbersLoop(height, width, board', AllCoords(height, width))
              = board'
        /\ board' = CalculateNumbers(height, width,
                         PlaceMines(height, width, MineCells(height, width, board)))
        /\ \A order \in Orders(height, width) :
              CalculateNumbersLoop(height, width, board, order) = board' ]_vars

\* a processed 3 x 3 grid: a cell holds a 2 and another a 3, values that no grid
\* holds before _calculate_numbers has run
W_C25_ProcessedGrid ==
    /\ height = 3 /\ width = 3
    /\ \E a, b \in HereCells : board[a] = 2 /\ board[b] = 3
    /\ board = CalculateNumbersLoop(height, width, board, AllCoords(height, width))

----------------------------------------------------------------------------
(* C26. new_game can be invoked from any state between two handlers, PLAYING    *)
(* before or after the first reveal, WON or LOST, and yields the initial state: *)
(* game_over false, first_click true, mines_left = num_mines, timer_seconds =   *)
(* 0, a freshly generated solution grid and a player view all HIDDEN            *)

C26_NewGameYieldsInitialState ==
    [][ /\ (pc = "idle" /\ after_pending < MaxPending) => ENABLED NewGame
        /\ NewGame =>
              /\ ~game_over' /\ reset_button' = "PLAYING"
              /\ first_click'
              /\ mines_left' = num_mines
              /\ timer_seconds' = 0
              /\ GeneratedFromScratch(height, width, num_mines, board')
              /\ player_view' = AllHidden(height, width) ]_vars

\* a new game started in the middle of a session (its timer callback is still
\* scheduled), itself started after a win whose score was saved
W_C26_NewGameMidSession ==
    /\ pc = "idle" /\ ~game_over /\ first_click
    /\ timer_seconds = 0 /\ mines_left = num_mines
    /\ player_view = AllHidden(height, width)
    /\ after_pending > 0
    /\ highscores_json.kind = "mapping"

----------------------------------------------------------------------------
(* C27. new_game stops any lingering timer: when new_game has returned, no      *)
(* update_timer callback scheduled during the previous session is still        *)
(* pending, so no tick occurs and timer_seconds stays 0 until the first         *)
(* accepted reveal of the new session                                           *)

C27_NewGameStopsTimer ==
    [][ /\ NewGame => after_pending' = 0
        /\ first_click' => timer_seconds' = 0 ]_vars

----------------------------------------------------------------------------
(* C28. Under every interleaving of left-clicks, right-clicks, new_game and     *)
(* timer firings at most one update_timer callback is pending at any time, so   *)
(* timer_seconds increases by at most 1 per timer interval                      *)

C28_AtMostOnePending == after_pending <= 1

----------------------------------------------------------------------------
(* C29. Once a session is terminal, WON or LOST, timer_seconds never changes    *)
(* until new_game: an update_timer callback that fires after game_over is set   *)
(* returns without incrementing timer_seconds and without rescheduling itself;  *)
(* and on a win the time passed to the score store is the value timer_seconds   *)
(* had when game_over was set                                                   *)

\* the calls of the latest handler that pass a time to the score store
TimedCalls(calls) ==
    {calls[k] : k \in {j \in DOMAIN calls :
                          calls[j].function \in {"is_highscore", "add_score"}}}

\* C29: in a terminal session only new_game changes timer_seconds, a callback that
\* fires is used up, and the winning step passes the store the time then shown
C29_TimerFrozenWhenTerminal ==
    [][ /\ game_over =>
              \/ timer_seconds' = timer_seconds
              \/ NewGame
        /\ \A fired \in {"current", "other"} :
              (game_over /\ UpdateTimer(fired)) =>
                  /\ timer_seconds' = timer_seconds
                  /\ after_pending' = after_pending - 1
        /\ (~game_over /\ game_over' /\ reset_button' = "WON") =>
              /\ TimedCalls(hs_calls') # {}
              /\ \A call \in TimedCalls(hs_calls') : call.time = timer_seconds' ]_vars

\* a session just won, whose score was saved with the time the timer shows, while
\* a callback of an earlier session is still scheduled and will fire
W_C29_WonWithCallbackPending ==
    /\ reset_button = "WON" /\ game_over
    /\ after_pending > 0 /\ timer_id = NoTimer
    /\ Len(hs_calls) = 3
    /\ hs_calls[2].function = "add_score"
    /\ hs_calls[2].time = timer_seconds
    /\ ENABLED UpdateTimer("other")

----------------------------------------------------------------------------
(* C30. The score store is written at most once per session and only on a win:  *)
(* add_score is called only in the step that makes the session WON, only after  *)
(* is_highscore(config_key, time) returned true and the player entered a        *)
(* non-empty name, with config_key = "{height}x{width}x{num_mines}"; it is not  *)
(* called in a LOST or PLAYING session, nor by anything done after the win      *)

\* the decimal numeral of a one-digit number
Numeral(n) == <<"0", "1", "2", "3", "4", "5", "6", "7", "8", "9">>[n + 1]

\* "{height}x{width}x{num_mines}" for one-digit dimensions
ExpectedKey == Numeral(height) \o "x" \o Numeral(width) \o "x" \o Numeral(num_mines)

AddScoreCalls(calls) == {k \in DOMAIN calls : calls[k].function = "add_score"}

----------------------------------------------------------------------------
(* C31. In every reachable state no mine cell is REVEALED: a cascade writes     *)
(* only non-mine solution values into the player view, since it propagates only *)
(* from 0-valued cells, which have no mine among their neighbours; and a        *)
(* cascade never changes the state of a FLAGGED cell                            *)

\* every mine cell is HIDDEN or FLAGGED in view, which holds nothing but HIDDEN,
\* FLAGGED and the values 0..8
NoMineInView(h, w, brd, view) ==
    \A cell \in Cells(h, w) :
        /\ view[cell] \in {HIDDEN, FLAGGED} \cup (0 .. 8)
        /\ brd[cell] = MINE => view[cell] \in {HIDDEN, FLAGGED}

\* C31: before and after every step no mine cell is REVEALED, and a step that
\* reveals cells leaves every FLAGGED cell FLAGGED
C31_NoMineRevealed ==
    [][ /\ NoMineInView(height, width, board, player_view)
        /\ NoMineInView(height, width, board', player_view')
        /\ RevealedCells(height, width, player_view')
              # RevealedCells(height, width, player_view)
              => \/ \A cell \in FlaggedCells(height, width, player_view) :
                        player_view'[cell] = FLAGGED
                 \/ NewGame ]_vars

\* a cascade has run on a 3 x 3 grid beside the mine, which carries a flag and is
\* still unrevealed
W_C31_CascadeBesideFlaggedMine ==
    /\ pc = "idle" /\ ~game_over /\ height = 3 /\ width = 3
    /\ \E f, z, n \in HereCells :
          /\ board[f] = MINE /\ player_view[f] = FLAGGED
          /\ player_view[z] = 0
          /\ player_view[n] >= 1 /\ Adjacent(n, f) /\ Adjacent(n, z)

----------------------------------------------------------------------------
(* C32. In every reachable state of a session, across right-clicks,             *)
(* left-clicks, first-click regenerations and new_game, mines_left equals       *)
(* num_mines minus the number of FLAGGED cells of the current player view       *)

C32_MinesLeftMatchesFlags ==
    mines_left = num_mines - FlagCount(height, width, player_view)

----------------------------------------------------------------------------
(* C33. In a session in which on_right_click is never performed, after every    *)
(* completed left-click every in-bounds Moore neighbour of every REVEALED       *)
(* 0-valued cell is itself REVEALED: the revealed set is closed under           *)
(* zero-propagation                                                             *)

ClosedUnderZeroPropagation(h, w, view) ==
    \A z \in Cells(h, w) :
        view[z] = 0 => \A n \in Cells(h, w) : Adjacent(n, z) => Revealed(view, n)

\* C33: between two handlers of a session without right-clicks, the revealed set
\* is closed under zero-propagation
C33_RevealedClosedWithoutFlags ==
    pc = "idle" => ClosedUnderZeroPropagation(height, width, player_view)

\* a session without right-clicks, still PLAYING after a cascade over at least two
\* 0-valued cells of a 3 x 3 grid and a later reveal of a numbered cell
W_C33_CascadeThenSingleReveal ==
    /\ pc = "idle" /\ ~game_over /\ height = 3 /\ width = 3
    /\ Cardinality({cell \in HereCells : player_view[cell] = 0}) >= 2
    /\ \E n \in HereCells :
          /\ player_view[n] >= 1
          /\ \A z \in HereCells : Adjacent(n, z) => player_view[z] # 0
    /\ \E cell \in HereCells : player_view[cell] = HIDDEN /\ board[cell] # MINE

----------------------------------------------------------------------------
(* C34. For generate_analytics_data over n boards of a valid configuration, the *)
(* entries of the cumulative histogram number_counts[0..8] add up to            *)
(* n * (height * width - num_mines), and number_counts[0] is the sum of the     *)
(* per-trial zero-cell counts white_cell_counts                                 *)

RECURSIVE SeqSum(_)
SeqSum(seq) == IF seq = <<>> THEN 0 ELSE Head(seq) + SeqSum(Tail(seq))

\* counts[0] + ... + counts[8]
HistogramTotal(counts) == SeqSum([k \in 1 .. 9 |-> counts[k - 1]])

\* C34: after each completed trial, and in what is returned, the histogram accounts
\* for every non-mine cell of every board once, its entry 0 for every 0-valued cell
C34_HistogramTotals ==
    ~InvalidConfig(height, width, num_mines) =>
        /\ apc = "loop" =>
              /\ HistogramTotal(number_counts)
                    = trial * ((height * width) - num_mines)
              /\ number_counts[0] = SeqSum(white_cell_counts)
        /\ apc = "returned" =>
              /\ HistogramTotal(result.number_counts)
                    = n_boards * ((height * width) - num_mines)
              /\ result.number_counts[0] = SeqSum(result.white_cell_counts)

\* two boards of a valid 3 x 3 configuration have been returned: their histogram
\* holds 0-valued cells, 1s and 2s, and the boards differ in their zero-cell counts
W_C34_HistogramOfTwoBoards ==
    /\ apc = "returned" /\ n_boards = 2
    /\ height = 3 /\ width = 3
    /\ ~InvalidConfig(height, width, num_mines)
    /\ result.number_counts[0] > 0
    /\ result.number_counts[1] > 0
    /\ result.number_counts[2] > 0
    /\ result.white_cell_counts[1] # result.white_cell_counts[2]
    /\ HistogramTotal(result.number_counts) = 2 * (9 - num_mines)

====
